---- MODULE Spec2Model ----
(***************************************************************************)
(* Model of the air-quality station browser (mainWITHDOXYMIGHTBEBROKEN.cpp,*)
(* identical in behaviour to test4/main.cpp): the three kinds of persisted *)
(* JSON files (raw station dump, simplified catalog, one sensor file per   *)
(* station) and the operations that read and write them.                   *)
(***************************************************************************)
EXTENDS Integers, Sequences, FiniteSets, TLC

\* ---------------------------------------------------------------- bounds
NumPayloads == 2

\* Every operation works on one station and one sensor at a time: two of
\* each tell "the one operated on" from "another one".
Stations == {1, 2}
Sensors == {1, 2}
\* A payload stands for one "values" array as delivered by the getData
\* endpoint; the store copies it verbatim and never looks inside.
Payloads == 1..NumPayloads

\* rawFile, dbFile, stationFile: the files on disk.  last: the operation
\* that ran last.  proc: the callers that are inside fetchAndSaveSensorData.
\* search: cityResults and resultList of the main frame.  graph: what the
\* graph panel was given and what it drew.
VARIABLES rawFile, dbFile, stationFile, last, proc, search, graph

vars == <<rawFile, dbFile, stationFile, last, proc, search, graph>>

\* ------------------------------------------------------- persisted files
\* A file on disk: missing, present with zero bytes, or holding a JSON
\* document (the literal null, or an array of items).
Absent == [kind |-> "absent", items |-> <<>>]
EmptyFile == [kind |-> "empty", items |-> <<>>]
JsonNull == [kind |-> "null", items |-> <<>>]

JsonArray(s) == [kind |-> "array", items |-> s]

\* ifstream: !is_open() || peek() == EOF
MissingOrEmpty(f) == f.kind \in {"absent", "empty"}

\* ------------------------------------------------------------- upstream
\* Key "param" missing is param = 0; key "values" missing is hasValues =
\* FALSE (values = 0 then).
UpstreamDescriptor(x) == [id |-> x, param |-> x, hasValues |-> FALSE, values |-> 0]

\* The "sensors of a station" endpoint: an array of descriptors, one per
\* sensor of the station, each sensor once.
SensorIdLists ==
    {q \in UNION {[1..n -> Sensors] : n \in 0..Cardinality(Sensors)} :
        \A i, j \in 1..Len(q) : i # j => q[i] # q[j]}

SensorList(q) == [i \in 1..Len(q) |-> UpstreamDescriptor(q[i])]

\* curl_easy_perform fails ("transport"), or the body is not JSON ("parse"),
\* or the body is the endpoint's document ("ok").
FetchFailures == {"transport", "parse"}

SensorListReplies ==
    [status : FetchFailures, body : {<<>>}]
        \cup [status : {"ok"}, body : {SensorList(q) : q \in SensorIdLists}]

MeasurementReplies ==
    [status : FetchFailures, values : {0}]
        \cup [status : {"ok"}, values : Payloads]

\* ------------------------------------------------------ fetchAndSaveData
\* Variant: the output file is opened (and so truncated) before the body is
\* parsed.
fetchAndSaveData_TruncateFirst(reply, old) ==
    IF reply.status = "ok" THEN JsonArray(reply.body)
    ELSE IF reply.status = "parse" THEN EmptyFile ELSE old

\* The file is opened for writing only after the body has parsed.
fetchAndSaveData(reply, old) ==
    IF reply.status = "ok" THEN JsonArray(reply.body) ELSE old

\* ------------------------------------------------ fetchAndSaveSensorData
\* Variant: only the first descriptor is compared.
FirstWithId_HeadOnly(data, x) ==
    IF Len(data) > 0 /\ data[1].id = x THEN 1 ELSE 0

\* Index of the first descriptor with the given id, 0 if there is none.
FirstWithId(data, x) ==
    IF \E i \in 1..Len(data) : data[i].id = x
    THEN CHOOSE i \in 1..Len(data) :
            data[i].id = x /\ \A j \in 1..(i - 1) : data[j].id # x
    ELSE 0

NewEntry(x, v) == [id |-> x, param |-> 0, hasValues |-> TRUE, values |-> v]

\* Variant: the new entry is pushed whether or not a descriptor was updated.
mergeSensorValues_AlwaysAppend(data, x, v) ==
    LET i == FirstWithId(data, x)
        upd == IF i # 0
               THEN [data EXCEPT ![i] = [@ EXCEPT !.hasValues = TRUE, !.values = v]]
               ELSE data
    IN Append(upd, NewEntry(x, v))

\* Variant: values already stored are kept.
mergeSensorValues_KeepStored(data, x, v) ==
    LET i == FirstWithId(data, x)
    IN IF i # 0
       THEN IF data[i].hasValues THEN data
            ELSE [data EXCEPT ![i] = [@ EXCEPT !.hasValues = TRUE, !.values = v]]
       ELSE Append(data, NewEntry(x, v))

\* Variant: an unknown sensor is not appended.
mergeSensorValues_DropUnknown(data, x, v) ==
    LET i == FirstWithId(data, x)
    IN IF i # 0
       THEN [data EXCEPT ![i] = [@ EXCEPT !.hasValues = TRUE, !.values = v]]
       ELSE data

\* Variant: the loop assigns the values without comparing the id.
mergeSensorValues_UpdateAll(data, x, v) ==
    IF Len(data) > 0
    THEN [i \in 1..Len(data) |-> [data[i] EXCEPT !.hasValues = TRUE, !.values = v]]
    ELSE Append(data, NewEntry(x, v))

mergeSensorValues(data, x, v) ==
    LET i == FirstWithId(data, x)
    IN IF i # 0
       THEN [data EXCEPT ![i] = [@ EXCEPT !.hasValues = TRUE, !.values = v]]
       ELSE Append(data, NewEntry(x, v))

fetchAndSaveSensorData(reply, x, old) ==
    IF reply.status # "ok" THEN old
    ELSE IF old.kind = "empty" THEN old   \* file >> stationData throws parse_error, caught
    ELSE JsonArray(mergeSensorValues(old.items, x, reply.values))

\* ----------------------------------------------------------- updateData
updateData(reply, old) == fetchAndSaveData(reply, old)

\* ------------------------------------------------- station dump, catalog
\* A string is a sequence of characters.  std::stod converts the longest
\* leading run of digits and throws std::invalid_argument when there is
\* none.
Digits == {"0", "1", "2", "3", "4", "5", "6", "7", "8", "9"}

DigitVal(c) ==
    CASE c = "0" -> 0 [] c = "1" -> 1 [] c = "2" -> 2 [] c = "3" -> 3
      [] c = "4" -> 4 [] c = "5" -> 5 [] c = "6" -> 6 [] c = "7" -> 7
      [] c = "8" -> 8 [] c = "9" -> 9

StodThrows(str) == Len(str) = 0 \/ str[1] \notin Digits

RECURSIVE StodFrom(_, _, _)
StodFrom(str, i, acc) ==
    IF i > Len(str) \/ str[i] \notin Digits THEN acc
    ELSE StodFrom(str, i + 1, 10 * acc + DigitVal(str[i]))

stod(str) == StodFrom(str, 1, 0)

\* One record of the findAll endpoint.  hasCity is station.contains("city").
RawRecord(id, hasCity, city, province, lat, lon) ==
    [id |-> id, hasCity |-> hasCity, cityName |-> city,
     provinceName |-> province, gegrLat |-> lat, gegrLon |-> lon]

CatalogEntry(station) ==
    [id |-> station.id, provinceName |-> station.provinceName,
     cityName |-> station.cityName, gegrLat |-> stod(station.gegrLat),
     geogrLon |-> stod(station.gegrLon)]

\* The loop of init over the raw dump: it throws out of init at the first
\* record with a city whose coordinate strings stod rejects.
BuildThrows(dump) ==
    \E i \in 1..Len(dump) :
        dump[i].hasCity /\ (StodThrows(dump[i].gegrLat) \/ StodThrows(dump[i].gegrLon))

RECURSIVE BuildEntries(_)
BuildEntries(dump) ==
    IF dump = <<>> THEN <<>>
    ELSE IF Head(dump).hasCity
         THEN <<CatalogEntry(Head(dump))>> \o BuildEntries(Tail(dump))
         ELSE BuildEntries(Tail(dump))

\* jsonDatabase starts as null and becomes an array at the first push_back.
BuildCatalog_Reversed(dump) ==
    IF BuildEntries(dump) = <<>> THEN JsonNull
    ELSE JsonArray([k \in 1..Len(BuildEntries(dump)) |->
                       BuildEntries(dump)[Len(BuildEntries(dump)) + 1 - k]])

BuildCatalog_KeepAll(dump) ==
    IF dump = <<>> THEN JsonNull
    ELSE JsonArray([k \in 1..Len(dump) |-> CatalogEntry(dump[k])])

BuildCatalog(dump) ==
    IF BuildEntries(dump) = <<>> THEN JsonNull ELSE JsonArray(BuildEntries(dump))

\* The dumps the findAll endpoint delivers in the full-application
\* specification: both stations with a city; one station without a city;
\* a station whose latitude is not a number.
SampleDumps ==
    { << RawRecord(1, TRUE, "Krakow", "MALOPOLSKIE", <<"5", "0">>, <<"1", "9">>),
         RawRecord(2, TRUE, "Gdansk", "POMORSKIE", <<"5", "4">>, <<"1", "8">>) >>,
      << RawRecord(1, TRUE, "Krakow", "MALOPOLSKIE", <<"x">>, <<"1", "9">>) >> }

DumpReplies(dumps) ==
    [status : FetchFailures, body : {<<>>}] \cup [status : {"ok"}, body : dumps]

\* init(): what it leaves in the two files, whether it rebuilt the catalog
\* and whether it returned.
\*   answerYes  - the user's answer to "Do you wish to download the database?"
\*   garbageYes - whether the uninitialised `response` happens to equal wxYES
\*                on the path that never assigns it
init_Incremental(raw, db, reply, answerYes, garbageYes) ==
    LET needFetch == MissingOrEmpty(raw)
        responseIsYes == IF needFetch THEN garbageYes ELSE answerYes
        fetched == needFetch \/ answerYes
        raw1 == IF fetched THEN fetchAndSaveData(reply, raw) ELSE raw
        rebuild == responseIsYes \/ MissingOrEmpty(db)
        throws == rebuild /\ (raw1.kind # "array" \/ BuildThrows(raw1.items))
    IN [raw |-> raw1,
        db |-> IF rebuild /\ ~throws
               THEN JsonArray(db.items \o BuildEntries(raw1.items)) ELSE db,
        fetch |-> IF fetched THEN reply.status ELSE "none",
        built |-> rebuild /\ ~throws,
        returned |-> ~throws]

init(raw, db, reply, answerYes, garbageYes) ==
    LET needFetch == MissingOrEmpty(raw)
        responseIsYes == IF needFetch THEN garbageYes ELSE answerYes
        fetched == needFetch \/ answerYes
        raw1 == IF fetched THEN fetchAndSaveData(reply, raw) ELSE raw
        rebuild == responseIsYes \/ MissingOrEmpty(db)
        \* file >> jsonData throws when the dump cannot be read
        throws == rebuild /\ (raw1.kind # "array" \/ BuildThrows(raw1.items))
    IN [raw |-> raw1,
        db |-> IF rebuild /\ ~throws THEN BuildCatalog(raw1.items) ELSE db,
        fetch |-> IF fetched THEN reply.status ELSE "none",
        built |-> rebuild /\ ~throws,
        returned |-> ~throws]

\* --------------------------------------------------------- state machine
\* last: the operation that ran last, the reply its fetch got ("none" when
\* it fetched nothing), and what it showed to the user.
\* follows: for a successful merge-update, how it relates to the operation
\* right before it: "same"/"other" when that was a successful merge-update
\* of the same station and sensor with the same/another payload, else "-".
\* What an operation's fetch came to: "none" (it fetched nothing), "ok", or
\* "failed" (transport or parse failure; the code tells the caller neither).
FetchResult(status) == IF status \in FetchFailures THEN "failed" ELSE status

Outcome(op, s, x, status, v, msg) ==
    [op |-> op, station |-> s, sensor |-> x, fetch |-> FetchResult(status),
     payload |-> v, msg |-> msg, follows |-> "-"]

MergedOk(l) == l.op \in {"fetchAndSaveSensorData", "ShowSensorData"} /\ l.fetch = "ok"

RefreshedOk(l) == l.op \in {"OnUpdate", "ShowCityDetails"} /\ l.fetch = "ok"

MergeOutcome(op, s, x, reply, msg) ==
    [Outcome(op, s, x, reply.status, reply.values, msg) EXCEPT
        !.follows = IF reply.status = "ok" /\ MergedOk(last)
                       /\ last.station = s /\ last.sensor = x
                    THEN IF last.payload = reply.values THEN "same" ELSE "other"
                    ELSE "-"]

\* Two callers at most are inside fetchAndSaveSensorData at a time.
Procs == {1, 2}

IdleProc == [pc |-> "idle", station |-> 0, sensor |-> 0, payload |-> 0, data |-> Absent]

\* Nothing searched yet: cityResults and resultList are empty.
\* nearest: the last search went into the coordinate search, with the
\* coordinates userLat and userLon.
NoSearch ==
    [cityResults |-> <<>>, resultList |-> <<>>,
     nearest |-> FALSE, userLat |-> 0, userLon |-> 0]

\* No graph panel exists.
\*   fullSensorData - the descriptors the dialog was opened with
\*   startDate, endDate - the date range applied last (0: none yet)
\*   sensorData - the descriptors the panel was built with
\*   values, dates - the vectors DrawGraph extracted
\*   drawn - DrawGraph got as far as the labels
\*   minIndex, maxIndex, minDate, maxDate, current, trend - what the labels show
\*   error - what DrawGraph reported to its caller ("" is nothing)
NoGraph ==
    [shown |-> FALSE, fullSensorData |-> <<>>, startDate |-> 0, endDate |-> 0,
     sensorData |-> <<>>, values |-> <<>>, dates |-> <<>>,
     drawn |-> FALSE, minIndex |-> 0, maxIndex |-> 0, minDate |-> 0,
     maxDate |-> 0, current |-> 0, trend |-> "", error |-> ""]

Quiet ==
    /\ proc = [p \in Procs |-> IdleProc]
    /\ search = NoSearch
    /\ graph = NoGraph

Init ==
    /\ rawFile = Absent
    /\ dbFile = Absent
    /\ stationFile = [s \in Stations |-> Absent]
    /\ last = Outcome("none", 0, 0, "none", 0, "")
    /\ Quiet

\* The process is up: init has returned and no handler has thrown since.
Running == last.op # "none" /\ last.msg # "crash"

\* MyApp::OnInit -> init(frame): a start of the application (a first start,
\* a start after a crash, or the user closing and starting it again).
Startup(dumps) ==
    \* init reads either the answer or the indeterminate value, never both:
    \* one choice stands for the one it reads.
    \E reply \in DumpReplies(dumps), isYes \in BOOLEAN :
        \E r \in {init(rawFile, dbFile, reply, isYes, isYes)} :
           /\ rawFile' = r.raw
           /\ dbFile' = r.db
           /\ last' = Outcome("init", 0, 0, r.fetch, 0,
                              IF ~r.returned THEN "crash"
                              ELSE IF r.built THEN "built" ELSE "")
           /\ search' = NoSearch
           /\ graph' = NoGraph
           /\ UNCHANGED <<stationFile, proc>>

\* MyFrame::OnUpdate with station id s typed by the user.
OnUpdate_EveryStation(s) ==
    /\ Running
    /\ \E reply \in SensorListReplies :
        /\ stationFile' = [t \in Stations |-> updateData(reply, stationFile[t])]
        /\ last' = Outcome("OnUpdate", s, 0, reply.status, 0, "")
    /\ UNCHANGED <<rawFile, dbFile, proc, search, graph>>

OnUpdate(s) ==
    /\ Running
    /\ \E reply \in SensorListReplies :
        /\ stationFile' = [stationFile EXCEPT ![s] = updateData(reply, @)]
        /\ last' = Outcome("OnUpdate", s, 0, reply.status, 0, "")
    /\ UNCHANGED <<rawFile, dbFile, proc, search, graph>>

\* fetchAndSaveSensorData(s, x) called on its own.
MergeUpdate(s, x) ==
    /\ Running
    /\ \E reply \in MeasurementReplies :
        /\ stationFile' = [stationFile EXCEPT ![s] = fetchAndSaveSensorData(reply, x, @)]
        /\ last' = MergeOutcome("fetchAndSaveSensorData", s, x, reply, "")
    /\ UNCHANGED <<rawFile, dbFile, proc, search, graph>>

\* OnSearch puts catalog entries into cityResults; OnCitySelected passes one
\* of them to ShowCityDetails.
InCatalog(s) ==
    dbFile.kind = "array" /\ \E i \in 1..Len(dbFile.items) : dbFile.items[i].id = s

\* sensor["param"]["paramName"].get<string>() throws when the key is missing.
ListingThrows(data) == \E i \in 1..Len(data) : data[i].param = 0

\* MyFrame::ShowCityDetails for station s.
ShowCityDetails(s) ==
    /\ Running
    /\ InCatalog(s)
    /\ IF MissingOrEmpty(stationFile[s])
       THEN \E reply \in SensorListReplies :
               /\ stationFile' = [stationFile EXCEPT ![s] = updateData(reply, @)]
               /\ last' = Outcome("ShowCityDetails", s, 0, reply.status, 0, "TryAgain")
       ELSE /\ stationFile' = stationFile
            /\ last' = Outcome("ShowCityDetails", s, 0, "none", 0,
                               IF ListingThrows(stationFile[s].items)
                               THEN "crash" ELSE "Listed")
    /\ UNCHANGED <<rawFile, dbFile, proc, search, graph>>

\* The sensor dialog of station s is open and lists sensor x.
Listed(s, x) ==
    /\ InCatalog(s)
    /\ ~MissingOrEmpty(stationFile[s])
    /\ ~ListingThrows(stationFile[s].items)
    /\ \E i \in 1..Len(stationFile[s].items) : stationFile[s].items[i].id = x

\* find_if(..., elem.contains("values")) != end
AnyHasValues(data) == \E i \in 1..Len(data) : data[i].hasValues

\* MyFrame::ShowSensorData(s, x), reached by a double click in the sensor
\* dialog.  "Do you wish to Download Sensor data?" is asked when some
\* descriptor has values; the data is fetched on yes and when not asked.
ShowSensorData(s, x) ==
    /\ Running
    /\ Listed(s, x)
    /\ \/ /\ AnyHasValues(stationFile[s].items)   \* answer: no
          /\ stationFile' = stationFile
          /\ last' = Outcome("ShowSensorData", s, x, "none", 0, "Graph")
       \/ \E reply \in MeasurementReplies :        \* answer: yes, or not asked
             /\ stationFile' =
                   [stationFile EXCEPT ![s] = fetchAndSaveSensorData(reply, x, @)]
             /\ last' = MergeOutcome("ShowSensorData", s, x, reply, "DataDownloaded")
    /\ UNCHANGED <<rawFile, dbFile, proc, search, graph>>

Next ==
    \/ Startup(SampleDumps)
    \/ \E s \in Stations : OnUpdate(s)
    \/ \E s \in Stations, x \in Sensors : MergeUpdate(s, x)
    \/ \E s \in Stations : ShowCityDetails(s)
    \/ \E s \in Stations, x \in Sensors : ShowSensorData(s, x)

Spec == Init /\ [][Next]_vars

\* The store on its own: the application has started on the first sample
\* dump and stays up.
StartedDump == CHOOSE d \in SampleDumps : Len(d) = 2

InitStore ==
    /\ rawFile = JsonArray(StartedDump)
    /\ dbFile = BuildCatalog(StartedDump)
    /\ stationFile = [s \in Stations |-> Absent]
    /\ last = Outcome("init", 0, 0, "ok", 0, "built")
    /\ Quiet

NextStore ==
    \/ \E s \in Stations : OnUpdate(s)
    \/ \E s \in Stations, x \in Sensors : MergeUpdate(s, x)
    \/ \E s \in Stations : ShowCityDetails(s)
    \/ \E s \in Stations, x \in Sensors : ShowSensorData(s, x)

SpecStore == InitStore /\ [][NextStore]_vars

\* ------------------------------------- callers inside fetchAndSaveSensorData
\* fetchAndSaveSensorData takes no lock: between reading <stationID>.json
\* and writing it back another caller may read or write the same file.  Each
\* caller runs the function once, in the steps the code takes.

\* Lines 423-427: the fetch and the parse of the reply.
BeginMerge(p, s, x) ==
    /\ proc[p].pc = "idle"
    /\ \E reply \in MeasurementReplies :
          proc' = [proc EXCEPT ![p] =
                      [pc |-> IF reply.status = "ok" THEN "fetched" ELSE "failed",
                       station |-> s, sensor |-> x, payload |-> reply.values,
                       data |-> Absent]]
    /\ UNCHANGED <<rawFile, dbFile, stationFile, last, search, graph>>

\* Lines 428-435: ifstream file(filename); file >> stationData.
LoadStationData(p) ==
    /\ proc[p].pc = "fetched"
    /\ proc' = [proc EXCEPT ![p].pc = "loaded",
                            ![p].data = stationFile[proc[p].station]]
    /\ UNCHANGED <<rawFile, dbFile, stationFile, last, search, graph>>

\* Lines 437-451: update the descriptor or push a new one, in memory.
ModifyStationData(p) ==
    /\ proc[p].pc = "loaded"
    /\ proc' = [proc EXCEPT ![p].pc = "modified",
                            ![p].data = JsonArray(mergeSensorValues(
                                proc[p].data.items, proc[p].sensor, proc[p].payload))]
    /\ UNCHANGED <<rawFile, dbFile, stationFile, last, search, graph>>

\* Lines 453-457: ofstream outFile(filename); outFile << stationData.dump(4).
PersistStationData(p) ==
    /\ proc[p].pc = "modified"
    /\ stationFile' = [stationFile EXCEPT ![proc[p].station] = proc[p].data]
    /\ proc' = [proc EXCEPT ![p].pc = "done"]
    /\ UNCHANGED <<rawFile, dbFile, last, search, graph>>

\* The station files the callers find: none yet, or a refreshed list.
StartFiles == {Absent} \cup {JsonArray(SensorList(q)) : q \in SensorIdLists}

InitConcurrent ==
    /\ rawFile = JsonArray(StartedDump)
    /\ dbFile = BuildCatalog(StartedDump)
    /\ \E f \in StartFiles : stationFile = [s \in Stations |-> f]
    /\ last = Outcome("init", 0, 0, "ok", 0, "built")
    /\ Quiet

NextConcurrent ==
    \/ \E p \in Procs, s \in Stations, x \in Sensors : BeginMerge(p, s, x)
    \/ \E p \in Procs : LoadStationData(p)
    \/ \E p \in Procs : ModifyStationData(p)
    \/ \E p \in Procs : PersistStationData(p)

SpecConcurrent == InitConcurrent /\ [][NextConcurrent]_vars

\* ------------------------------------------------- catalog builds alone
\* The application is started over and over against dumps made of these
\* records: stations with a city and numeric coordinates, stations with a
\* city and a coordinate that is not a number, a station without a city.
\* Two records may carry the same id.
MaxDumpLen == 2

CityName(id) == IF id = 1 THEN "Krakow" ELSE "Gdansk"

ProvinceName(id) == IF id = 1 THEN "MALOPOLSKIE" ELSE "POMORSKIE"

CatalogRecords ==
    { RawRecord(1, TRUE, CityName(1), ProvinceName(1), <<"5", "0">>, <<"1", "9">>),
      RawRecord(2, TRUE, CityName(2), ProvinceName(2), <<"5", "4">>, <<"1", "8">>),
      RawRecord(1, TRUE, CityName(1), ProvinceName(1), <<"x">>, <<"1", "9">>),
      RawRecord(2, TRUE, CityName(2), ProvinceName(2), <<"5", "4">>, <<>>),
      RawRecord(1, FALSE, "", "", <<"5", "0">>, <<"1", "9">>) }

CatalogDumps == UNION {[1..n -> CatalogRecords] : n \in 0..MaxDumpLen}

NextCatalog == Startup(CatalogDumps)

SpecCatalog == Init /\ [][NextCatalog]_vars

\* ------------------------------------------------------------- OnSearch
\* numeric_limits<double>::max(), above every distance of the model.
DoubleMax == 2147483647

\* A null json value where a station is expected (no station has id 0).
NullStation ==
    [id |-> 0, provinceName |-> "", cityName |-> "", gegrLat |-> 0, geogrLon |-> 0]

\* wxString::IsSameAs(input, false) compares without regard to case.
LowerCase(name) ==
    CASE name \in {"Krakow", "KRAKOW", "krakow"} -> "krakow"
      [] name \in {"Gdansk", "GDANSK", "gdansk"} -> "gdansk"
      [] OTHER -> name

IsSameAs(a, b) == LowerCase(a) = LowerCase(b)

Haversine(lat1, lon1, lat2, lon2) == (lat1 - lat2) + (lon1 - lon2)

\* One turn of the loop over the catalog: best is <minDistance, closestStation>.
ScanStep_OrEqual(best, station, userLat, userLon) ==
    IF Haversine(userLat, userLon, station.gegrLat, station.geogrLon) <= best.minDistance
    THEN [minDistance |-> Haversine(userLat, userLon, station.gegrLat, station.geogrLon),
          closestStation |-> station]
    ELSE best

ScanStep(best, station, userLat, userLon) ==
    IF Haversine(userLat, userLon, station.gegrLat, station.geogrLon) < best.minDistance
    THEN [minDistance |-> Haversine(userLat, userLon, station.gegrLat, station.geogrLon),
          closestStation |-> station]
    ELSE best

RECURSIVE ScanCatalog(_, _, _, _)
ScanCatalog(best, stations, userLat, userLon) ==
    IF stations = <<>> THEN best
    ELSE ScanCatalog(ScanStep(best, Head(stations), userLat, userLon),
                     Tail(stations), userLat, userLon)

Closest(stations, userLat, userLon) ==
    ScanCatalog([minDistance |-> DoubleMax, closestStation |-> NullStation],
                stations, userLat, userLon)

NameMatches(stations, input) ==
    SelectSeq(stations, LAMBDA city : IsSameAs(city.cityName, input))

ListItems(stations) ==
    [k \in 1..Len(stations) |->
        [name |-> stations[k].cityName, id |-> stations[k].id, closest |-> FALSE,
         distance |-> 0]]

SearchOutcome(msg) == Outcome("OnSearch", 0, 0, "none", 0, msg)

\* MyFrame::OnSearch.  input is the text of the search box; coordYes the
\* answer to "Do you wish to search city through coordinates?"; coordsOk
\* whether both texts the user typed are numbers, userLat and userLon.
OnSearch(input, coordYes, coordsOk, userLat, userLon) ==
    /\ Running
    /\ UNCHANGED <<rawFile, dbFile, stationFile, proc, graph>>
    /\ IF dbFile.kind = "absent"
       THEN last' = SearchOutcome("NoDatabase") /\ UNCHANGED search
       ELSE IF dbFile.kind = "empty"
       THEN last' = SearchOutcome("crash") /\ UNCHANGED search
       ELSE IF NameMatches(dbFile.items, input) # <<>>
       THEN /\ search' = [NoSearch EXCEPT
                             !.cityResults = NameMatches(dbFile.items, input),
                             !.resultList = ListItems(NameMatches(dbFile.items, input))]
            /\ last' = SearchOutcome("Matches")
       ELSE IF ~coordYes
       THEN search' = NoSearch /\ last' = SearchOutcome("CityNotFound")
       ELSE IF ~coordsOk
       THEN search' = NoSearch /\ last' = SearchOutcome("InvalidCoordinates")
       ELSE \E c \in {Closest(dbFile.items, userLat, userLon)} :
              IF c.closestStation = NullStation
              THEN \* closestStation["id"].get<int>() throws type_error
                   /\ search' = [NoSearch EXCEPT
                                    !.cityResults = <<NullStation>>,
                                    !.nearest = TRUE,
                                    !.userLat = userLat, !.userLon = userLon]
                   /\ last' = SearchOutcome("crash")
              ELSE /\ search' = [cityResults |-> <<c.closestStation>>,
                                 resultList |-> <<[name |-> c.closestStation.cityName,
                                                   id |-> c.closestStation.id,
                                                   closest |-> TRUE,
                                                   distance |-> c.minDistance]>>,
                                 nearest |-> TRUE,
                                 userLat |-> userLat, userLon |-> userLon]
                   /\ last' = SearchOutcome("Closest")

\* The catalogs searched: up to MaxCatalogLen stations, station i with id
\* i, at whole-number coordinates 1..MaxCoord.
MaxCatalogLen == 3

MaxCoord == 2

CoordStrings == {<<"1">>, <<"2">>, <<"3">>, <<"4">>}

CoordString(n) == CHOOSE str \in CoordStrings : stod(str) = n

SearchDumps ==
    UNION {{[i \in 1..n |-> RawRecord(i, TRUE, CityName(i), ProvinceName(i),
                                     CoordString(at[i][1]), CoordString(at[i][2]))]
            : at \in [1..n -> (1..MaxCoord) \X (1..MaxCoord)]}
           : n \in 0..MaxCatalogLen}

SearchInputs == {"KRAKOW", "Lodz"}

\* The application has started and built its catalog from one of the dumps.
InitSearch ==
    /\ \E d \in SearchDumps :
          /\ rawFile = JsonArray(d)
          /\ dbFile = BuildCatalog(d)
    /\ stationFile = [s \in Stations |-> Absent]
    /\ last = Outcome("init", 0, 0, "ok", 0, "built")
    /\ Quiet

\* The coordinates are asked for only after a yes, and read only when both
\* are numbers.
NextSearch ==
    \/ \E input \in SearchInputs : OnSearch(input, FALSE, FALSE, 0, 0)
    \/ \E input \in SearchInputs : OnSearch(input, TRUE, FALSE, 0, 0)
    \/ \E input \in SearchInputs, userLat, userLon \in 0..MaxCoord :
          OnSearch(input, TRUE, TRUE, userLat, userLon)

SpecSearch == InitSearch /\ [][NextSearch]_vars

\* ------------------------------------------------- GraphPanel::DrawGraph
\* A stored measurement point: "value" is missing, null or a number;
\* "date" is missing ("absent"), a string that is no date ("text"), or the
\* string of day number `date` ("date").
Point(kind, value, dateKind, date) ==
    [kind |-> kind, value |-> value, dateKind |-> dateKind, date |-> date]

\* !dataEntry.contains("value") || dataEntry["value"].is_null() -> continue
IsValidEntry_NullPasses(dataEntry) == dataEntry.kind # "absent"

IsValidEntry(dataEntry) == dataEntry.kind = "number"

\* The two nested loops: every entry of every descriptor, in stored order.
RECURSIVE StoredPoints(_)
StoredPoints(sensorData) ==
    IF sensorData = <<>> THEN <<>>
    ELSE Head(sensorData).values \o StoredPoints(Tail(sensorData))

Reverse(seq) == [k \in 1..Len(seq) |-> seq[Len(seq) + 1 - k]]

\* std::min_element / std::max_element as positions (from 1): the scan keeps
\* its candidate unless a later element is strictly smaller / larger.
RECURSIVE MinFrom(_, _, _)
MinFrom(values, i, smallest) ==
    IF i > Len(values) THEN smallest
    ELSE MinFrom(values, i + 1, IF values[i] < values[smallest] THEN i ELSE smallest)

RECURSIVE MaxFrom_LastOnTies(_, _, _)
MaxFrom_LastOnTies(values, i, largest) ==
    IF i > Len(values) THEN largest
    ELSE MaxFrom_LastOnTies(values, i + 1,
                            IF values[largest] <= values[i] THEN i ELSE largest)

RECURSIVE MaxFrom(_, _, _)
MaxFrom(values, i, largest) ==
    IF i > Len(values) THEN largest
    ELSE MaxFrom(values, i + 1, IF values[largest] < values[i] THEN i ELSE largest)

\* GraphPanel::CalculateTrend.  The sums of the loop, with x = i for the
\* element at index i (from 0); the values of the model are whole numbers,
\* so every sum is exact.
TrendStep_XNotSquared(sums, x, y) ==
    [sumX |-> sums.sumX + x, sumY |-> sums.sumY + y,
     sumXY |-> sums.sumXY + x * y, sumX2 |-> sums.sumX2 + x]

TrendStep(sums, x, y) ==
    [sumX |-> sums.sumX + x, sumY |-> sums.sumY + y,
     sumXY |-> sums.sumXY + x * y, sumX2 |-> sums.sumX2 + x * x]

RECURSIVE TrendLoop(_, _, _)
TrendLoop(values, i, sums) ==
    IF i >= Len(values) THEN sums
    ELSE TrendLoop(values, i + 1, TrendStep(sums, i, values[i + 1]))

TrendSums(values) ==
    TrendLoop(values, 0, [sumX |-> 0, sumY |-> 0, sumXY |-> 0, sumX2 |-> 0])

TrendDenominator(values) ==
    Len(values) * TrendSums(values).sumX2
        - TrendSums(values).sumX * TrendSums(values).sumX

TrendNumerator(values) ==
    Len(values) * TrendSums(values).sumXY
        - TrendSums(values).sumX * TrendSums(values).sumY

\* double slopdeg = 0.1763, as the fraction SlopdegNum / SlopdegDen.
SlopdegNum == 1763

SlopdegDen == 10000

\* slope > slopdeg and slope < -slopdeg for slope = num / den.  IEEE
\* division keeps the sign of the denominator's effect: the comparison is
\* made on the cross products.
SlopeAbove(num, den) ==
    IF den > 0 THEN num * SlopdegDen > SlopdegNum * den
    ELSE num * SlopdegDen < SlopdegNum * den

SlopeBelow(num, den) ==
    IF den > 0 THEN num * SlopdegDen < -(SlopdegNum * den)
    ELSE num * SlopdegDen > -(SlopdegNum * den)

CalculateTrend_NoThreshold(values) ==
    IF Len(values) < 2 THEN "Not enough data"
    ELSE IF TrendDenominator(values) = 0 THEN "Undefined trend"
    ELSE IF TrendNumerator(values) > 0 THEN "Rising"
    ELSE IF TrendNumerator(values) < 0 THEN "Falling"
    ELSE "Stable"

CalculateTrend(values) ==
    IF Len(values) < 2 THEN "Not enough data"
    ELSE IF TrendDenominator(values) = 0 THEN "Undefined trend"
    ELSE IF SlopeAbove(TrendNumerator(values), TrendDenominator(values)) THEN "Rising"
    ELSE IF SlopeBelow(TrendNumerator(values), TrendDenominator(values)) THEN "Falling"
    ELSE "Stable"

\* DrawGraph over the panel's sensorData; indices count from 0 as in the code.
DrawGraph(sensorData) ==
    LET entries == Reverse(SelectSeq(StoredPoints(sensorData), IsValidEntry))
        values == [k \in 1..Len(entries) |-> entries[k].value]
        dates == [k \in 1..Len(entries) |-> entries[k].date]
    IN IF values = <<>>
       THEN [NoGraph EXCEPT !.shown = TRUE, !.sensorData = sensorData]
       ELSE [shown |-> TRUE, fullSensorData |-> <<>>, startDate |-> 0,
             endDate |-> 0, sensorData |-> sensorData,
             values |-> values, dates |-> dates, drawn |-> TRUE,
             minIndex |-> MinFrom(values, 2, 1) - 1,
             maxIndex |-> MaxFrom(values, 2, 1) - 1,
             minDate |-> dates[MinFrom(values, 2, 1)],
             maxDate |-> dates[MaxFrom(values, 2, 1)],
             current |-> values[Len(values)],
             trend |-> CalculateTrend(values),
             error |-> ""]

\* The data handed to a panel: up to MaxPoints points with values
\* 1..MaxValue, missing or null, dated in descending order, in one
\* descriptor or split over two; or no descriptor at all.
MaxPoints == 4

MaxValue == 3

PointShapes ==
    {Point("absent", 0, "date", 0), Point("null", 0, "date", 0)}
        \cup {Point("number", v, "date", 0) : v \in 1..MaxValue}

Dated(points) ==
    [k \in 1..Len(points) |-> [points[k] EXCEPT !.date = Len(points) + 1 - k]]

Descriptor(x, points) == [id |-> x, values |-> points]

GraphInputs(points) ==
    {<<>>, <<Descriptor(1, points)>>} \cup
    {<<Descriptor(1, SubSeq(points, 1, cut)),
       Descriptor(1, SubSeq(points, cut + 1, Len(points)))>> : cut \in 0..Len(points)}

\* The dialog of ShowSensorData builds a GraphPanel and paints it.
OpenGraph ==
    /\ Running
    /\ ~graph.shown
    /\ \E n \in 0..MaxPoints :
          \E points \in [1..n -> PointShapes] :
             \E sensorData \in GraphInputs(Dated(points)) :
                graph' = [DrawGraph(sensorData) EXCEPT !.fullSensorData = sensorData]
    /\ UNCHANGED <<rawFile, dbFile, stationFile, last, proc, search>>

\* detailsDialog->Destroy()
CloseGraph ==
    /\ graph.shown
    /\ graph' = NoGraph
    /\ UNCHANGED <<rawFile, dbFile, stationFile, last, proc, search>>

InitGraph ==
    /\ rawFile = JsonArray(StartedDump)
    /\ dbFile = BuildCatalog(StartedDump)
    /\ stationFile = [s \in Stations |-> Absent]
    /\ last = Outcome("init", 0, 0, "ok", 0, "built")
    /\ Quiet

NextGraph ==
    \/ OpenGraph
    \/ CloseGraph

SpecGraph == InitGraph /\ [][NextGraph]_vars

\* ------------------------------------ MyFrame::FilterSensorDataByDateRange
\* Days are numbered from EpochDay, the day of the string "1970-01-01".
EpochDay == 1

\* dataEntry.value("date", "1970-01-01"): the string under "date", or the
\* fallback string when the entry has no such key.
DateString(dataEntry) ==
    IF dataEntry.dateKind = "absent"
    THEN [dateKind |-> "date", date |-> EpochDay]
    ELSE [dateKind |-> dataEntry.dateKind, date |-> dataEntry.date]

\* wxDateTime::ParseFormat(dateStr, "%Y-%m-%d"): dt stays invalid when the
\* string does not start with a date; a time of day after the date is not
\* read.
ParseFormat(dateStr) == [valid |-> dateStr.dateKind = "date", day |-> dateStr.date]

KeepsEntry(dataEntry, startDate, endDate) ==
    /\ IsValidEntry(dataEntry)
    /\ ParseFormat(DateString(dataEntry)).valid
    /\ ParseFormat(DateString(dataEntry)).day >= startDate
    /\ ParseFormat(DateString(dataEntry)).day <= endDate

\* sensorCopy of one descriptor: its id and the entries kept.
SensorCopy(sensor, startDate, endDate) ==
    [id |-> sensor.id,
     values |-> SelectSeq(sensor.values,
                          LAMBDA dataEntry : KeepsEntry(dataEntry, startDate, endDate))]

RECURSIVE FilterSensorDataByDateRange_KeepsEmpty(_, _, _)
FilterSensorDataByDateRange_KeepsEmpty(sensorData, startDate, endDate) ==
    IF sensorData = <<>> THEN <<>>
    ELSE <<SensorCopy(Head(sensorData), startDate, endDate)>>
            \o FilterSensorDataByDateRange_KeepsEmpty(Tail(sensorData), startDate, endDate)

RECURSIVE FilterSensorDataByDateRange(_, _, _)
FilterSensorDataByDateRange(sensorData, startDate, endDate) ==
    IF sensorData = <<>> THEN <<>>
    ELSE (IF SensorCopy(Head(sensorData), startDate, endDate).values # <<>>
          THEN <<SensorCopy(Head(sensorData), startDate, endDate)>>
          ELSE <<>>)
            \o FilterSensorDataByDateRange(Tail(sensorData), startDate, endDate)

\* DrawGraph reads dataEntry["date"] of every entry it takes; on an entry
\* without that key the read is undefined behaviour.
ReadsMissingDate(sensorData) ==
    \E k \in 1..Len(StoredPoints(sensorData)) :
        /\ IsValidEntry(StoredPoints(sensorData)[k])
        /\ StoredPoints(sensorData)[k].dateKind = "absent"

GraphOutcome(msg) == Outcome("DrawGraph", 0, 0, "none", 0, msg)

\* A new GraphPanel over sensorData is painted: DrawGraph runs; where it
\* reads a missing date it either goes on with whatever it read or the
\* process ends.
Paint(panel, sensorData) ==
    \/ /\ graph' = [DrawGraph(sensorData) EXCEPT
                       !.fullSensorData = panel.fullSensorData,
                       !.startDate = panel.startDate,
                       !.endDate = panel.endDate]
       /\ UNCHANGED last
    \/ /\ ReadsMissingDate(sensorData)
       /\ graph' = NoGraph
       /\ last' = GraphOutcome("crash")

\* The points a dialog is opened over: up to MaxFilterPoints points, in one
\* descriptor or two.  A point with a number as value (numbered by its
\* position) has no date, a string that is no date, or a day 1..MaxDay; a
\* point without a value or with a null value has a day 1..MaxDay.
MaxFilterPoints == 2

MaxDay == 3

FilterShapes ==
    {Point("number", 0, dateKind, 0) : dateKind \in {"absent", "text"}}
    \cup {Point(kind, 0, "date", d) :
        kind \in {"absent", "null", "number"}, d \in 1..MaxDay}

Numbered(points) ==
    [k \in 1..Len(points) |->
        IF points[k].kind = "number" THEN [points[k] EXCEPT !.value = k]
        ELSE points[k]]

\* ShowSensorData opens the dialog over fullSensorData and paints the panel.
OpenDialog ==
    /\ Running
    /\ ~graph.shown
    /\ \E n \in 0..MaxFilterPoints :
          \E points \in [1..n -> FilterShapes] :
             \E sensorData \in GraphInputs(Numbered(points)) :
                Paint([NoGraph EXCEPT !.fullSensorData = sensorData], sensorData)
    /\ UNCHANGED <<rawFile, dbFile, stationFile, proc, search>>

\* The handler of "Apply Date Range": the panel is replaced by one over
\* the filtered data.
ApplyDateRange(startDate, endDate) ==
    /\ Running
    /\ graph.shown
    /\ Paint([graph EXCEPT !.startDate = startDate, !.endDate = endDate],
             FilterSensorDataByDateRange(graph.fullSensorData, startDate, endDate))
    /\ UNCHANGED <<rawFile, dbFile, stationFile, proc, search>>

NextFilter ==
    \/ OpenDialog
    \/ \E startDate, endDate \in 1..MaxDay : ApplyDateRange(startDate, endDate)
    \/ CloseGraph

SpecFilter == InitGraph /\ [][NextFilter]_vars

\* --------------------------------------- the three writers of the files
\* init, updateData and fetchAndSaveSensorData, each through the handler
\* that does nothing but call it.
NextWriters ==
    \/ Startup(SampleDumps)
    \/ \E s \in Stations : OnUpdate(s)
    \/ \E s \in Stations, x \in Sensors : MergeUpdate(s, x)

SpecWriters == Init /\ [][NextWriters]_vars

\* ================================================================ claims
HasSensor(f, x) == \E i \in 1..Len(f.items) : f.items[i].id = x

\* Sensor x is in the file and every descriptor of x holds the values v.
StoresValues(f, x, v) ==
    /\ HasSensor(f, x)
    /\ \A i \in 1..Len(f.items) :
          f.items[i].id = x => f.items[i].hasValues /\ f.items[i].values = v

\* C1: a descriptor-list refresh of station s leaves the stored values of
\* every sensor that is still listed afterwards as they were.
C1_RefreshKeepsValues ==
    [][\A s \in Stations :
          (RefreshedOk(last') /\ last'.station = s) =>
             \A i \in 1..Len(stationFile[s].items) :
                \A j \in 1..Len(stationFile'[s].items) :
                   (/\ stationFile[s].items[i].hasValues
                    /\ stationFile'[s].items[j].id = stationFile[s].items[i].id)
                   => /\ stationFile'[s].items[j].hasValues
                      /\ stationFile'[s].items[j].values = stationFile[s].items[i].values]_vars

C3_MergeLastWriteWins ==
    [][(/\ MergedOk(last) /\ MergedOk(last')
        /\ last'.station = last.station /\ last'.sensor = last.sensor)
       => /\ StoresValues(stationFile'[last.station], last.sensor, last'.payload)
          /\ Len(stationFile'[last.station].items) = Len(stationFile[last.station].items)]_vars

\* The second of two merge-updates of one sensor, with another payload, is
\* done.
C3_Witness ==
    /\ MergedOk(last)
    /\ last.follows = "other"
    /\ StoresValues(stationFile[last.station], last.sensor, last.payload)

\* C4: once a refresh of s and a merge-update of (s, x, v) have both
\* succeeded, one right after the other in either order, x is in the file of
\* s with values v.
C4_EitherOrder ==
    [][/\ (/\ MergedOk(last) /\ RefreshedOk(last') /\ last'.station = last.station)
          => StoresValues(stationFile'[last.station], last.sensor, last.payload)
       /\ (/\ RefreshedOk(last) /\ MergedOk(last') /\ last'.station = last.station)
          => StoresValues(stationFile'[last.station], last'.sensor, last'.payload)]_vars

\* C5: a successful merge-update of (s, x, v) on a file that is absent or
\* has no descriptor of x leaves the previous descriptors as they were, in
\* order, followed by one new descriptor of x with values v.
C5_MergeAppends ==
    [][\A s \in Stations :
          (/\ MergedOk(last') /\ last'.station = s
           /\ ~HasSensor(stationFile[s], last'.sensor))
          => LET old == stationFile[s].items
                 new == stationFile'[s].items
             IN /\ stationFile'[s].kind = "array"
                /\ Len(new) = Len(old) + 1
                /\ \A i \in 1..Len(old) : new[i] = old[i]
                /\ new[Len(new)].id = last'.sensor
                /\ new[Len(new)].hasValues
                /\ new[Len(new)].values = last'.payload]_vars

\* A merge-update has appended a descriptor behind an existing one.
C5_Witness ==
    /\ MergedOk(last)
    /\ LET data == stationFile[last.station].items
       IN /\ Len(data) = 2
          /\ data[2].id = last.sensor
          /\ data[2].param = 0
          /\ data[2].values = last.payload
          /\ data[1].id # last.sensor

\* C6: a successful merge-update of (s, x, v) right after a successful
\* merge-update of (s, x, v) changes no file.
C6_MergeIdempotent ==
    [][(/\ MergedOk(last) /\ MergedOk(last')
        /\ last'.station = last.station /\ last'.sensor = last.sensor
        /\ last'.payload = last.payload)
       => stationFile' = stationFile]_vars

\* The second of two identical merge-updates is done.
C6_Witness ==
    /\ MergedOk(last)
    /\ last.follows = "same"
    /\ StoresValues(stationFile[last.station], last.sensor, last.payload)

\* C7: a merge-update of (s, x, v), successful or not, keeps every
\* descriptor at its place, and keeps id, param and values of every
\* descriptor of another sensor.
C7_MergeFrame ==
    [][\A s \in Stations :
          (/\ last'.op \in {"fetchAndSaveSensorData", "ShowSensorData"}
           /\ last'.station = s)
          => LET old == stationFile[s].items
                 new == stationFile'[s].items
             IN /\ Len(new) >= Len(old)
                /\ \A i \in 1..Len(old) :
                      /\ new[i].id = old[i].id
                      /\ new[i].param = old[i].param
                      /\ old[i].id # last'.sensor => new[i] = old[i]]_vars

\* A merge-update is done on a station that also stores values of another
\* sensor.
C7_Witness ==
    /\ MergedOk(last)
    /\ \E i \in 1..Len(stationFile[last.station].items) :
          /\ stationFile[last.station].items[i].id # last.sensor
          /\ stationFile[last.station].items[i].hasValues
          /\ stationFile[last.station].items[i].values # last.payload

\* C8: an operation whose fetch failed leaves the raw dump, the catalog and
\* every per-station file as they were.
C8_FailedFetchKeepsFiles ==
    [][last'.fetch = "failed"
       => /\ rawFile' = rawFile
          /\ dbFile' = dbFile
          /\ stationFile' = stationFile]_vars

\* The download at start-up has failed while a dump, a catalog and stored
\* values exist.
C8_Witness ==
    /\ last.op = "init"
    /\ last.fetch = "failed"
    /\ rawFile.kind = "array"
    /\ dbFile.kind = "array"
    /\ \E s \in Stations : AnyHasValues(stationFile[s].items)

\* C9: the caller announces "Data downloaded" only after a fetch that
\* succeeded.
C9_FailureReported == last.msg = "DataDownloaded" => last.fetch = "ok"

\* C10: opening a station whose file is missing, with a fetch that succeeds,
\* ends with the sensors listed.
C10_OpenRetriesRead ==
    (last.op = "ShowCityDetails" /\ last.fetch = "ok") => last.msg = "Listed"

\* C11: when two merge-updates of one station, of different sensors, have
\* both persisted, the file holds each sensor with the values of its
\* merge-update, however their load, modify and persist steps interleaved.
C11_NoLostUpdate ==
    \A p, q \in Procs :
        (/\ p # q
         /\ proc[p].pc = "done" /\ proc[q].pc = "done"
         /\ proc[p].station = proc[q].station
         /\ proc[p].sensor # proc[q].sensor)
        => /\ StoresValues(stationFile[proc[p].station], proc[p].sensor, proc[p].payload)
           /\ StoresValues(stationFile[proc[q].station], proc[q].sensor, proc[q].payload)

\* The records of a dump that have a city object, and those of them whose
\* coordinate strings are numbers.
CityIndices(dump) == {i \in 1..Len(dump) : dump[i].hasCity}

ValidIndices(dump) ==
    {i \in CityIndices(dump) :
        ~StodThrows(dump[i].gegrLat) /\ ~StodThrows(dump[i].gegrLon)}

\* init went into the catalog build over a readable dump in this step.
BuildAttempted == last'.op = "init" /\ last'.msg # "" /\ rawFile'.kind = "array"

\* init built the catalog in this step.
BuildCompleted == last'.op = "init" /\ last'.msg = "built" /\ rawFile'.kind = "array"

\* C12: a catalog build over a dump with a record whose latitude or
\* longitude is not a number does not abort: it completes, and the
\* catalog has an entry for every record with a city and valid
\* coordinates.
C12_BadRecordSkipped ==
    [][BuildAttempted =>
          /\ last'.msg = "built"
          /\ \A i \in ValidIndices(rawFile'.items) :
                \E k \in 1..Len(dbFile'.items) :
                    dbFile'.items[k].id = rawFile'.items[i].id]_vars

\* The position in the catalog of the entry built from record i.
Rank(dump, i) == Cardinality({j \in CityIndices(dump) : j <= i})

\* C13: a completed catalog build keeps exactly the records with a city
\* object: one entry per such record and no other, in the dump's order,
\* each with the record's id, city name and province name.
C13_KeepsCityRecords ==
    [][BuildCompleted =>
          /\ Len(dbFile'.items) = Cardinality(CityIndices(rawFile'.items))
          /\ \A i \in CityIndices(rawFile'.items) :
                \E e \in {dbFile'.items[Rank(rawFile'.items, i)]} :
                    /\ e.id = rawFile'.items[i].id
                    /\ e.cityName = rawFile'.items[i].cityName
                    /\ e.provinceName = rawFile'.items[i].provinceName]_vars

\* A build completed over a dump that has a record without a city in front
\* of two records with a city and different ids.
C13_Witness ==
    /\ last.op = "init" /\ last.msg = "built"
    /\ rawFile.kind = "array" /\ Len(rawFile.items) >= 2
    /\ \E i \in CityIndices(rawFile.items) :
         /\ i > 1
         /\ \/ ~rawFile.items[1].hasCity
            \/ rawFile.items[1].id # rawFile.items[i].id

\* C14: a catalog build overwrites the catalog: a build from the dump the
\* previous build read leaves the catalog as it was, every entry after a
\* build has the id of a record of the dump just read, and the catalog has
\* no more entries than that dump has records.
C14_FullOverwrite ==
    [][BuildCompleted =>
          /\ (last.op = "init" /\ last.msg = "built" /\ rawFile' = rawFile)
                => dbFile' = dbFile
          /\ Len(dbFile'.items) <= Len(rawFile'.items)
          /\ \A k \in 1..Len(dbFile'.items) :
                \E i \in CityIndices(rawFile'.items) :
                    dbFile'.items[k].id = rawFile'.items[i].id]_vars

\* A second build in a row over a dump with entries.
C14_Witness ==
    /\ last.op = "init" /\ last.msg = "built" /\ last.fetch = "failed"
    /\ dbFile.kind = "array"

UniqueIds(items) ==
    \A i, j \in 1..Len(items) : items[i].id = items[j].id => i = j

\* C15 as stated: after a completed catalog build from any dump, no two
\* entries of the catalog have the same id.
C15_UniqueIdsAnyDump ==
    [][BuildCompleted => UniqueIds(dbFile'.items)]_vars

\* C15 amended: after a completed catalog build from a dump whose records
\* with a city have pairwise different ids, no two entries of the catalog
\* have the same id.
C15_UniqueIdsFromUniqueDump ==
    [][(/\ BuildCompleted
        /\ \A i, j \in CityIndices(rawFile'.items) :
              rawFile'.items[i].id = rawFile'.items[j].id => i = j)
       => UniqueIds(dbFile'.items)]_vars

\* A build completed over two records with a city and different ids.
C15_Witness ==
    /\ last.op = "init" /\ last.msg = "built"
    /\ dbFile.kind = "array" /\ Len(dbFile.items) = 2
    /\ dbFile.items[1].id # dbFile.items[2].id

\* The metric value of the k-th catalog station for the last query.
Metric(k) ==
    Haversine(search.userLat, search.userLon,
              dbFile.items[k].gegrLat, dbFile.items[k].geogrLon)

\* C16: the station a coordinate search returns from a non-empty catalog
\* has a metric value no larger than any station's, and no station in
\* front of it in the catalog has that same metric value.
C16_FirstOfTheNearest ==
    (last.op = "OnSearch" /\ search.nearest /\ dbFile.kind = "array")
    => /\ last.msg = "Closest"
       /\ Len(search.cityResults) = 1
       /\ \E k \in 1..Len(dbFile.items) :
             /\ dbFile.items[k] = search.cityResults[1]
             /\ search.resultList[1].distance = Metric(k)
             /\ \A j \in 1..Len(dbFile.items) :
                   /\ Metric(j) >= Metric(k)
                   /\ Metric(j) = Metric(k) => j >= k

\* A coordinate search returned the first of two stations with the same
\* metric value, with a farther station in front of them.
C16_Witness ==
    /\ last.op = "OnSearch" /\ last.msg = "Closest"
    /\ Len(dbFile.items) = 3
    /\ search.cityResults[1] = dbFile.items[2]
    /\ Metric(3) = Metric(2)
    /\ Metric(1) > Metric(2)

\* C17: a coordinate search over a catalog with no stations reports
\* EmptyCatalog: it returns no station, puts nothing into the result list
\* and reads no field of a closest station.
C17_EmptyCatalogError ==
    (last.op = "OnSearch" /\ search.nearest /\ dbFile.items = <<>>)
    => /\ last.msg = "EmptyCatalog"
       /\ search.cityResults = <<>>
       /\ search.resultList = <<>>

\* The positions, in stored order, of the points of the panel's data whose
\* value is present and not null.
PresentIndices ==
    {i \in 1..Len(StoredPoints(graph.sensorData)) :
        StoredPoints(graph.sensorData)[i].kind = "number"}

\* C18: the series DrawGraph works on holds exactly the stored points with
\* a present, non-null value, in the reverse of their stored order, with
\* the date of each value at the same index; when anything is drawn,
\* `current` is the last element of the series.
C18_SeriesReversedAndFiltered ==
    graph.shown =>
        /\ Len(graph.values) = Cardinality(PresentIndices)
        /\ Len(graph.dates) = Len(graph.values)
        /\ \A i \in PresentIndices :
              \E k \in {Cardinality({j \in PresentIndices : j >= i})} :
                  /\ graph.values[k] = StoredPoints(graph.sensorData)[i].value
                  /\ graph.dates[k] = StoredPoints(graph.sensorData)[i].date
        /\ graph.drawn => graph.current = graph.values[Len(graph.values)]

\* A panel over points among which one is null, one has no value, and two
\* have different values.
C18_Witness ==
    /\ graph.drawn
    /\ Len(graph.values) = 2 /\ graph.values[1] # graph.values[2]
    /\ \E i, j \in 1..Len(StoredPoints(graph.sensorData)) :
          /\ StoredPoints(graph.sensorData)[i].kind = "null"
          /\ StoredPoints(graph.sensorData)[j].kind = "absent"

\* C19: when the data handed to DrawGraph has no point with a present
\* value, DrawGraph reports NoData to its caller.
C19_NoDataReported ==
    (graph.shown /\ graph.values = <<>>) => graph.error = "NoData"

\* C20: for a non-empty series, minIndex is the smallest index holding the
\* minimum, maxIndex the smallest index holding the maximum, and the date
\* shown with each is the date at that index.
C20_LeftmostExtremes ==
    graph.drawn =>
        /\ graph.minIndex \in 0..(Len(graph.values) - 1)
        /\ graph.maxIndex \in 0..(Len(graph.values) - 1)
        /\ \A k \in 1..Len(graph.values) :
              /\ graph.values[k] >= graph.values[graph.minIndex + 1]
              /\ graph.values[k] <= graph.values[graph.maxIndex + 1]
              /\ graph.values[k] = graph.values[graph.minIndex + 1]
                    => k >= graph.minIndex + 1
              /\ graph.values[k] = graph.values[graph.maxIndex + 1]
                    => k >= graph.maxIndex + 1
        /\ graph.minDate = graph.dates[graph.minIndex + 1]
        /\ graph.maxDate = graph.dates[graph.maxIndex + 1]

\* The series 2, 3, 3, 1: the maximum twice, first at index 1, the minimum
\* at index 3.
C20_Witness ==
    /\ graph.drawn
    /\ graph.values = <<2, 3, 3, 1>>
    /\ graph.maxIndex = 1 /\ graph.minIndex = 3

\* The least-squares slope of a series against the indices 0..n-1, as the
\* fraction of the centred sums: sum (x - mx)(y - my) over sum (x - mx)^2,
\* both scaled by n^2 to stay in whole numbers.
Indices(values) == 0..(Len(values) - 1)

RECURSIVE Total(_, _)
Total(S, f) ==
    IF S = {} THEN 0
    ELSE LET i == CHOOSE i \in S : TRUE IN f[i] + Total(S \ {i}, f)

CentredX(values) ==
    [x \in Indices(values) |->
        Len(values) * x - Total(Indices(values), [i \in Indices(values) |-> i])]

CentredY(values) ==
    [x \in Indices(values) |->
        Len(values) * values[x + 1]
            - Total(Indices(values), [i \in Indices(values) |-> values[i + 1]])]

Covariance(values) ==
    Total(Indices(values),
          [x \in Indices(values) |-> CentredX(values)[x] * CentredY(values)[x]])

Variance(values) ==
    Total(Indices(values),
          [x \in Indices(values) |-> CentredX(values)[x] * CentredX(values)[x]])

\* C21: the trend shown for a series is NotEnoughData below two elements;
\* otherwise Rising when the least-squares slope is above 0.1763, Falling
\* when it is below -0.1763, and Stable for every slope in between.
C21_TrendBySlope ==
    /\ CalculateTrend(<<>>) = "Not enough data"
    /\ graph.drawn =>
         \E cov \in {Covariance(graph.values)}, var \in {Variance(graph.values)} :
            graph.trend =
               IF Len(graph.values) < 2 THEN "Not enough data"
               ELSE IF 10000 * cov > 1763 * var THEN "Rising"
               ELSE IF 10000 * cov < -(1763 * var) THEN "Falling"
               ELSE "Stable"

\* A series with a positive slope below the threshold, shown as Stable.
C21_Witness ==
    /\ graph.drawn
    /\ Len(graph.values) >= 2
    /\ Covariance(graph.values) > 0
    /\ graph.trend = "Stable"

\* C27: for every series of two or more elements the denominator of the
\* slope is above zero and the trend shown is never "Undefined trend".
C27_DenominatorPositive ==
    (graph.drawn /\ Len(graph.values) >= 2)
    => /\ TrendDenominator(graph.values) > 0
       /\ graph.trend # "Undefined trend"

\* A series of the largest length of the model got a trend.
C27_Witness ==
    /\ graph.drawn
    /\ Len(graph.values) = MaxPoints
    /\ graph.trend \in {"Rising", "Falling", "Stable"}

\* A date range has been applied to the dialog's data and the panel over
\* the result is shown.
RangeApplied == graph.shown /\ graph.startDate # 0

\* The point has a present value and a date within the range applied.
InRange(p) ==
    /\ p.kind = "number"
    /\ p.dateKind = "date"
    /\ graph.startDate <= p.date /\ p.date <= graph.endDate

\* The ways to pair every descriptor of the result with a descriptor of
\* the input, keeping their order.
Pairings ==
    {m \in [1..Len(graph.sensorData) -> 1..Len(graph.fullSensorData)] :
        \A r, q \in 1..Len(graph.sensorData) : r < q => m[r] < m[q]}

\* C22: every descriptor of the filter's result holds exactly the points
\* of its input descriptor that have a present value and a date d with
\* start <= d <= end, in the input's order.
C22_ClosedInterval ==
    RangeApplied =>
        \E m \in Pairings :
            \A r \in 1..Len(graph.sensorData) :
                graph.sensorData[r].values
                    = SelectSeq(graph.fullSensorData[m[r]].values, InRange)

\* C23: the filter's result holds no point whose date is missing or is
\* not a date, whatever the range.
C23_UndatedDropped ==
    RangeApplied =>
        \A r \in 1..Len(graph.sensorData) :
            \A k \in 1..Len(graph.sensorData[r].values) :
                graph.sensorData[r].values[k].dateKind = "date"

\* The descriptors of the input of which the filter kept a point.
Passing ==
    {i \in 1..Len(graph.fullSensorData) :
        \E k \in 1..Len(graph.fullSensorData[i].values) :
            KeepsEntry(graph.fullSensorData[i].values[k],
                       graph.startDate, graph.endDate)}

\* C24: the filter's result has no descriptor without values; it has one
\* descriptor for each input descriptor of which a point passed, and no
\* other, in the input's order and with the input's id.
C24_NoEmptyDescriptor ==
    RangeApplied =>
        /\ \A r \in 1..Len(graph.sensorData) : graph.sensorData[r].values # <<>>
        /\ \E m \in Pairings :
              /\ {m[r] : r \in 1..Len(graph.sensorData)} = Passing
              /\ \A r \in 1..Len(graph.sensorData) :
                    /\ graph.sensorData[r].id = graph.fullSensorData[m[r]].id
                    /\ \A k \in 1..Len(graph.sensorData[r].values) :
                          \E j \in 1..Len(graph.fullSensorData[m[r]].values) :
                              graph.sensorData[r].values[k]
                                  = graph.fullSensorData[m[r]].values[j]

\* Of two descriptors the range kept points of the second only.
C24_Witness ==
    /\ RangeApplied
    /\ Len(graph.fullSensorData) = 2
    /\ graph.fullSensorData[1].values # <<>>
    /\ Passing = {2}
    /\ Len(graph.sensorData) = 1

\* C25: a descriptor-list refresh or a merge-update of station S leaves
\* the raw dump, the catalog and the file of every other station as they
\* are, and a start-up (raw dump and catalog refresh) leaves every
\* per-station file as it is.
C25_IndependentRefresh ==
    [][IF last'.op = "init"
       THEN stationFile' = stationFile
       ELSE /\ rawFile' = rawFile
            /\ dbFile' = dbFile
            /\ \A t \in Stations :
                  t # last'.station => stationFile'[t] = stationFile[t]]_vars

\* A refresh of one station has stored a list while the other station's
\* file holds values.
C25_Witness ==
    /\ last.op = "OnUpdate" /\ last.fetch = "ok"
    /\ stationFile[last.station].kind = "array"
    /\ \E t \in Stations \ {last.station} : AnyHasValues(stationFile[t].items)

\* C26: the readers of a per-station file complete also when the file
\* holds a descriptor without a parameter name (one a merge-update made
\* before any refresh): neither ShowCityDetails nor ShowSensorData fails.
C26_ToleratesMissingParam ==
    last.op \in {"ShowCityDetails", "ShowSensorData"} => last.msg # "crash"

\* C28: whenever init has completed, the catalog file holds the catalog
\* built from the raw dump that is in the raw file.
C28_CatalogMatchesDump ==
    (last.op = "init" /\ last.msg # "crash")
    => /\ rawFile.kind = "array"
       /\ ~BuildThrows(rawFile.items)
       /\ dbFile = BuildCatalog(rawFile.items)

\* C29: ShowSensorData(S, X) opens the graph only when S's file stores
\* values of X; when it stores none, the values of X are fetched instead,
\* whatever the other sensors of S store.
C29_GraphOnlyWithValues ==
    (last.op = "ShowSensorData" /\ last.msg = "Graph")
    => \E i \in 1..Len(stationFile[last.station].items) :
          /\ stationFile[last.station].items[i].id = last.sensor
          /\ stationFile[last.station].items[i].hasValues

\* C30: a coordinate search whose latitude and longitude are those of a
\* station of the catalog returns a station at exactly those coordinates.
C30_ExactMatchReturned ==
    (/\ last.op = "OnSearch" /\ search.nearest /\ dbFile.kind = "array"
     /\ \E k \in 1..Len(dbFile.items) :
           /\ dbFile.items[k].gegrLat = search.userLat
           /\ dbFile.items[k].geogrLon = search.userLon)
    => /\ last.msg = "Closest"
       /\ search.cityResults[1].gegrLat = search.userLat
       /\ search.cityResults[1].geogrLon = search.userLon

====
